---------------------------- MODULE Spec2Model ----------------------------
(***************************************************************************)
(* Telemetry generators of Project-Caravana/PythonApp:                     *)
(*   src/index.py          OBDSimulator (gerar_dados, simular_viagem)      *)
(*   src/obd_simulator.py  CustomOBDSimulator, VehicleDataCollector, main  *)
(*   src/obd_collector.py  RealOBDCollector, main                          *)
(*                                                                         *)
(* Numbers are fixed-point integers.  Units:                               *)
(*   speed            km/h                                                 *)
(*   temperature      1/100 degree C in the state, 1/10 in a reading       *)
(*   km/L (index.py)  1/1000 in the draw, 1/100 in a reading               *)
(*   distance delta   1e-6 km in index.py, 1e-3 km in obd_collector.py     *)
(*   sim.distance     km*3600 (speed times seconds)                        *)
(*   fuel level       1e-4 percent in the state                            *)
(*   time             seconds                                              *)
(* A Python None is the empty tuple, a present value v is <<v>>.           *)
(***************************************************************************)
EXTENDS Integers, Sequences, FiniteSets, TLC

VARIABLES
    prog,               \* which program runs
    pc,                 \* position of the program in its main loop
    now,                \* time.time(), seconds since the program started
    iteration,          \* number of ticks started
    attempt,            \* connection attempts made (obd_collector.main)
    obd,                \* the OBDSimulator object (index.py)
    sim,                \* the CustomOBDSimulator object (obd_simulator.py)
    col,                \* the RealOBDCollector object (obd_collector.py)
    arg,                \* arguments / inputs the last tick received
    snapshot,           \* the reading built by the last tick
    all_readings,       \* the history kept by save_local
    doc,                \* the JSON document last written by save_local
    local_saved,        \* result of save_local in this tick
    api_sent,           \* result of send_to_api / enviar_dados in this tick
    api_warning_shown,  \* main's flag
    http,               \* HTTP requests made so far: the tick of the reading each sent
    log,                \* failure messages printed in this tick
    hist                \* history of facts about earlier ticks

vars == <<prog, pc, now, iteration, attempt, obd, sim, col, arg, snapshot, all_readings,
          doc, local_saved, api_sent, api_warning_shown, http, log, hist>>

-----------------------------------------------------------------------------
(* Bounds of the model *)

\* ticks a while-True main loop is followed for
MaxIter == 2
\* save_local calls followed when only the history is exercised
MaxSaves == 1002
\* seconds an HTTP call that times out adds to the clock
SendTimeout == 4

\* the most update() calls made on one CustomOBDSimulator by a caller of the class
MaxUpdates == 6

-----------------------------------------------------------------------------
(* Python helpers *)

None == <<>>

Some(v) == <<v>>

IsNone(o) == o = <<>>

Val(o) == o[1]

Min(a, b) == IF a <= b THEN a ELSE b

Max(a, b) == IF a >= b THEN a ELSE b

Abs(a) == IF a >= 0 THEN a ELSE -a

\* floor of num/den for den > 0 (TLA+ \div already floors)
Floor(num, den) == num \div den

\* Python round(): the integer nearest to num/den, a tie going to the even one
RoundHalfEven(num, den) ==
    LET q == Floor(num, den)
        r == num - q * den
    IN  IF 2 * r < den THEN q
        ELSE IF 2 * r > den THEN q + 1
        ELSE IF q % 2 = 0 THEN q ELSE q + 1

NoSnapshot == [tick |-> 0]

NoDoc == [total_readings |-> -1]

HasSnapshot == snapshot.tick > 0

\* streak: failure messages the main loops of obd_simulator.py and obd_collector.py
\* printed since the last transmission that succeeded: 0, 1, or 2 for two or more
NoHist == [reached90 |-> FALSE, nivel |-> None, streak |-> 0]

NoObd == [velocidade_atual |-> 0, rpm_atual |-> 0, temperatura |-> 0]

NoArg == [modo |-> "", intervalo |-> 0]

\* what the HTTP call of a tick can end in, and the seconds it takes
HttpOutcomes == {"200", "500", "ConnectionError", "Timeout", "Exception"}

HttpSeconds(outcome) == IF outcome = "Timeout" THEN SendTimeout ELSE 0

-----------------------------------------------------------------------------
(* src/index.py: OBDSimulator *)

Modos == {"parado", "acelerando", "rodando", "freando"}

\* OBDSimulator.__init__
ObdInit == [velocidade_atual |-> 0, rpm_atual |-> 800, temperatura |-> 6000]

\* the value random.randint draws for the speed of a mode (step or new speed)
VelocidadeDraw(modo) ==
    CASE modo = "parado"     -> {0}
      [] modo = "acelerando" -> {5, 15}
      [] modo = "rodando"    -> {60, 90}
      [] modo = "freando"    -> {10, 20}

\* random.randint for rpm_atual: one value of each mode's range
RpmDraw(modo) ==
    CASE modo = "parado"     -> {800}
      [] modo = "acelerando" -> {3000}
      [] modo = "rodando"    -> {2000}
      [] modo = "freando"    -> {1500}

\* consumo_kml in 1/1000 km/L: 0 when parado, else one value of random.uniform's range
ConsumoDraw(modo) ==
    CASE modo = "parado"     -> {0}
      [] modo = "acelerando" -> {4125}
      [] modo = "rodando"    -> {11987}
      [] modo = "freando"    -> {25000}

\* a faulty variant of the steady-state draw: a band that starts at 87 degrees
TemperaturaDrawLow == {8700, 9500}

\* random.uniform(88, 95) in 1/100 degree
TemperaturaDraw == {8800, 8837, 9500}

\* random.randint(40, 90)
NivelDraw == {40, 90}

\* intervalo_segundos a caller passes (simular_viagem passes 2)
IntervaloDraw == {2, 3}

\* a faulty variant of the speed rule: acelerando without the ceiling of 120
NovaVelocidadeUncapped(modo, v, d) ==
    CASE modo = "parado"     -> 0
      [] modo = "acelerando" -> v + d
      [] modo = "rodando"    -> d
      [] modo = "freando"    -> Max(v - d, 0)

\* the speed a mode gives from speed v and draw d
NovaVelocidade(modo, v, d) ==
    CASE modo = "parado"     -> 0
      [] modo = "acelerando" -> Min(v + d, 120)
      [] modo = "rodando"    -> d
      [] modo = "freando"    -> Max(v - d, 0)

\* a faulty variant of the temperature rule: below 90 a tick may leave the
\* temperature where it is
NovaTemperaturaMayStall(t) == IF t < 9000 THEN {t + 50, t} ELSE TemperaturaDraw

\* the temperatures the temperature rule can give from t: half a degree more
\* below 90, a draw of random.uniform(88, 95) otherwise
NovaTemperatura(t) == IF t < 9000 THEN {t + 50} ELSE TemperaturaDraw

\* float(f"{(v / 3600) * intervalo:.6f}") in 1e-6 km
DistanciaIntervalo(v, intervalo) == RoundHalfEven(v * intervalo * 1000000, 3600)

\* the object after gerar_dados(modo, .) with draws d (speed), r (rpm) and new temperature u
ObdAfter(o, modo, d, r, u) ==
    [velocidade_atual |-> NovaVelocidade(modo, o.velocidade_atual, d),
     rpm_atual        |-> r,
     temperatura      |-> u]

\* the payload gerar_dados returns from the updated object o
\* (c: consumo_kml drawn with the mode, n: the fuel level drawn in the payload)
DadosObd(o, intervalo, c, n, tick) ==
    [tick                |-> tick,
     velocidade          |-> Some(o.velocidade_atual),
     rpm                 |-> Some(o.rpm_atual),
     temperatura         |-> Some(RoundHalfEven(o.temperatura, 10)),
     nivelCombustivel    |-> Some(n),
     consumoInstantaneo  |-> Some(RoundHalfEven(c, 10)),
     distanciaPercorrida |-> DistanciaIntervalo(o.velocidade_atual, intervalo),
     milStatus           |-> FALSE,
     dtcCount            |-> 0,
     fonte               |-> "simulador_v3_simples"]

\* what a reading adds to the history of facts
HistAfter(h, temperatura, nivel) ==
    [reached90 |-> h.reached90 \/ (~IsNone(temperatura) /\ Val(temperatura) >= 900),
     nivel     |-> nivel,
     streak    |-> h.streak]

\* what a transmission adds to the history of facts: ret its result, printed
\* the messages it printed
HistAfterSend(h, ret, printed) ==
    [h EXCEPT !.streak = IF ret THEN 0 ELSE Min(h.streak + Len(printed), 2)]

\* what main's report adds: its warning, when it is printed
HistAfterReport(h, warned) ==
    [h EXCEPT !.streak = IF warned THEN Min(h.streak + 1, 2) ELSE h.streak]

\* a faulty variant of gerar_dados: the distance is computed before the speed
\* is updated, from the prior speed
GerarDadosPriorDistance(modo, intervalo, tick) ==
    \E d \in VelocidadeDraw(modo), r \in RpmDraw(modo), c \in ConsumoDraw(modo),
       u \in NovaTemperatura(obd.temperatura), n \in NivelDraw :
        LET o == ObdAfter(obd, modo, d, r, u)
            dados == [DadosObd(o, intervalo, c, n, tick) EXCEPT
                        !.distanciaPercorrida =
                            DistanciaIntervalo(obd.velocidade_atual, intervalo)]
        IN  /\ obd' = o
            /\ snapshot' = dados
            /\ arg' = [modo |-> modo, intervalo |-> intervalo]
            /\ hist' = HistAfter(hist, dados.temperatura, dados.nivelCombustivel)

\* OBDSimulator.gerar_dados(modo, intervalo)
GerarDados(modo, intervalo, tick) ==
    \E d \in VelocidadeDraw(modo), r \in RpmDraw(modo), c \in ConsumoDraw(modo),
       u \in NovaTemperatura(obd.temperatura), n \in NivelDraw :
        LET o == ObdAfter(obd, modo, d, r, u)
            dados == DadosObd(o, intervalo, c, n, tick)
        IN  /\ obd' = o
            /\ snapshot' = dados
            /\ arg' = [modo |-> modo, intervalo |-> intervalo]
            /\ hist' = HistAfter(hist, dados.temperatura, dados.nivelCombustivel)

\* a caller of the class: gerar_dados with any mode and interval
ApiGerarDados ==
    /\ prog = "index_api"
    /\ \E modo \in Modos, intervalo \in IntervaloDraw : GerarDados(modo, intervalo, 1)
    /\ UNCHANGED <<prog, attempt, pc, now, iteration, sim, col, all_readings, doc, local_saved,
                   api_sent, api_warning_shown, http, log>>

InitIndexApi ==
    /\ prog = "index_api"
    /\ pc = "api"
    /\ now = 0
    /\ iteration = 0
    /\ attempt = 0
    /\ obd = ObdInit
    /\ sim = 0
    /\ col = 0
    /\ arg = NoArg
    /\ snapshot = NoSnapshot
    /\ all_readings = <<>>
    /\ doc = NoDoc
    /\ local_saved = FALSE
    /\ api_sent = FALSE
    /\ api_warning_shown = FALSE
    /\ http = <<>>
    /\ log = <<>>
    /\ hist = NoHist

SpecIndexApi == InitIndexApi /\ [][ApiGerarDados]_vars

\* the same caller when it never stops calling gerar_dados
SpecIndexApiFair == SpecIndexApi /\ WF_vars(ApiGerarDados)


\* OBDSimulator.enviar_dados: the value returned and the message printed
EnviarDados(outcome) ==
    CASE outcome = "200" -> [ret |-> TRUE,  log |-> <<>>]
      [] outcome = "500" -> [ret |-> FALSE, log |-> <<>>]
      [] OTHER           -> [ret |-> FALSE, log |-> <<"Erro">>]

\* duracao_segundos of simular_viagem, and its intervalo
Duracao == 60

Intervalo == 2

\* the mode simular_viagem selects at tempo seconds
ModoDe(tempo) ==
    IF tempo < 10 THEN "parado"
    ELSE IF tempo < 25 THEN "acelerando"
    ELSE IF tempo < 50 THEN "rodando"
    ELSE "freando"

\* while (time.time() - inicio) < duracao_segundos: ... modo = ...   (inicio = 0)
ViagemLoop ==
    /\ prog = "index_main" /\ pc = "loop"
    /\ IF now < Duracao
       THEN /\ pc' = "gerar"
            /\ iteration' = iteration + 1
            /\ arg' = [modo |-> ModoDe(now), intervalo |-> Intervalo]
            /\ log' = <<>>
            /\ api_sent' = FALSE
       ELSE /\ pc' = "fim"
            /\ UNCHANGED <<iteration, arg, log, api_sent>>
    /\ UNCHANGED <<prog, attempt, now, obd, sim, col, snapshot, all_readings, doc, local_saved,
                   api_warning_shown, http, hist>>

\* dados = self.gerar_dados(modo, intervalo)
ViagemGerar ==
    /\ prog = "index_main" /\ pc = "gerar"
    /\ GerarDados(arg.modo, arg.intervalo, iteration)
    /\ pc' = "enviar"
    /\ UNCHANGED <<prog, attempt, now, iteration, sim, col, all_readings, doc, local_saved,
                   api_sent, api_warning_shown, http, log>>

\* self.enviar_dados(dados)
ViagemEnviar ==
    /\ prog = "index_main" /\ pc = "enviar"
    /\ \E outcome \in HttpOutcomes :
        /\ http' = Append(http, snapshot.tick)
        /\ api_sent' = EnviarDados(outcome).ret
        /\ log' = log \o EnviarDados(outcome).log
        /\ now' = now + HttpSeconds(outcome)
    /\ pc' = "sleep"
    /\ UNCHANGED <<prog, attempt, iteration, obd, sim, col, arg, snapshot, all_readings, doc,
                   local_saved, api_warning_shown, hist>>

\* a faulty variant of the sleep: the loop goes round without the clock advancing
ViagemSleepNoTime ==
    /\ prog = "index_main" /\ pc = "sleep"
    /\ snapshot' = NoSnapshot
    /\ pc' = "loop"
    /\ UNCHANGED <<prog, attempt, now, iteration, obd, sim, col, arg, all_readings, doc,
                   local_saved, api_sent, api_warning_shown, http, log, hist>>

\* print(...); time.sleep(intervalo).  dados is not read again: the next
\* iteration overwrites it.
ViagemSleep ==
    /\ prog = "index_main" /\ pc = "sleep"
    /\ now' = now + Intervalo
    /\ snapshot' = NoSnapshot
    /\ pc' = "loop"
    /\ UNCHANGED <<prog, attempt, iteration, obd, sim, col, arg, all_readings, doc, local_saved,
                   api_sent, api_warning_shown, http, log, hist>>

\* print("FIM")
ViagemFim ==
    /\ prog = "index_main" /\ pc = "fim"
    /\ pc' = "exit"
    /\ UNCHANGED <<prog, attempt, now, iteration, obd, sim, col, arg, snapshot, all_readings, doc,
                   local_saved, api_sent, api_warning_shown, http, log, hist>>

\* KeyboardInterrupt in simular_viagem: nothing catches it, the process dies
\* with its locals
ViagemInterrupt ==
    /\ prog = "index_main" /\ pc \in {"loop", "gerar", "enviar", "sleep", "fim"}
    /\ pc' = "killed"
    /\ snapshot' = NoSnapshot
    /\ arg' = NoArg
    /\ UNCHANGED <<prog, attempt, now, iteration, obd, sim, col, all_readings, doc,
                   local_saved, api_sent, api_warning_shown, http, log, hist>>

InitIndexMain ==
    /\ prog = "index_main"
    /\ pc = "loop"
    /\ now = 0
    /\ iteration = 0
    /\ attempt = 0
    /\ obd = ObdInit
    /\ sim = 0
    /\ col = 0
    /\ arg = NoArg
    /\ snapshot = NoSnapshot
    /\ all_readings = <<>>
    /\ doc = NoDoc
    /\ local_saved = FALSE
    /\ api_sent = FALSE
    /\ api_warning_shown = FALSE
    /\ http = <<>>
    /\ log = <<>>
    /\ hist = NoHist

NextIndexMain ==
    \/ ViagemLoop
    \/ ViagemGerar
    \/ ViagemEnviar
    \/ ViagemSleep
    \/ ViagemFim
    \/ ViagemInterrupt

SpecIndexMain == InitIndexMain /\ [][NextIndexMain]_vars

\* simular_viagem as the interpreter runs it: a statement that can run does run;
\* the keyboard interrupt may or may not come
SpecIndexMainFair ==
    SpecIndexMain
        /\ WF_vars(ViagemLoop \/ ViagemGerar \/ ViagemEnviar \/ ViagemSleep \/ ViagemFim)

-----------------------------------------------------------------------------
(* src/obd_simulator.py: CustomOBDSimulator *)

\* random.uniform(40, 95), fuel level in 1e-4 percent: one value of the range
FuelInitDraw == {400317}

\* random.uniform(82, 90), base_temp in 1/100 degree
BaseTempDraw == {8200, 9000}

\* random.uniform(700, 850): one value of the range
BaseRpmIdleDraw == {800}

\* random.uniform(30, 60) when the simulator starts moving in __init__
InitSpeedDraw == {30, 60}

\* random.uniform(20, 40) when update() starts moving
StartSpeedDraw == {20, 40}

\* random.uniform(-3, 5) while moving
MoveChangeDraw == {-3, 5}

\* random.uniform(8, 15) while stopping
StopChangeDraw == {8, 15}

\* random.uniform(2, 8) and random.uniform(-3, 3) of get_coolant_temp, 1/100 degree
HotTempDraw == {200, 800}

CoolTempDraw == {-300, 300}

\* jitter of get_rpm (one value of each range) and of get_maf (1/400 g/s)
IdleRpmDraw == {-50}

RunRpmDraw == {150}

MafDraw == {-200}

\* A diagnostic code of a DTC list: a Python tuple of strings (items), or a bare
\* string, whose items are its characters (what indexing a str gives).
DtcTuple(items) == [tuple |-> TRUE, items |-> items]

DtcBare(chars) == [tuple |-> FALSE, items |-> chars]

\* get_dtc_codes: nothing, or the one code the simulator knows
SimDtcDraw == {<<>>, << DtcTuple(<<"P0128", "Coolant Thermostat Temperature">>) >>}

\* CustomOBDSimulator.__init__ at time t
SimInit(t) ==
    { [distance |-> 0, fuel_level |-> f, speed |-> v, is_moving |-> (v > 0),
       last_time |-> t, trip_start_time |-> t, base_temp |-> b, base_rpm_idle |-> r] :
        f \in FuelInitDraw, b \in BaseTempDraw, r \in BaseRpmIdleDraw,
        v \in {0} \cup InitSpeedDraw }

\* update(): is_moving after the 10% flip
MovingAfter(is_moving, flip) == IF flip THEN ~is_moving ELSE is_moving

\* a faulty variant of the speed update: moving without the range of 10 to 85
SpeedAfterUnclamped(is_moving, v, change) ==
    IF is_moving THEN v + change ELSE Max(0, v - change)

\* a faulty variant of the speed update: stopping without the floor of 0
SpeedAfterUnfloored(is_moving, v, change) ==
    IF is_moving THEN Max(10, Min(v + change, 85)) ELSE v - change

\* update(): the speed, from the speed v the flip left and the drawn change
SpeedAfter(is_moving, v, change) ==
    IF is_moving THEN Max(10, Min(v + change, 85)) ELSE Max(0, v - change)

\* update(): distance (km*3600) after dt seconds at speed v
DistanceAfter(distance, v, dt) == IF v > 0 THEN distance + v * dt ELSE distance

\* update(): fuel level after one tick at speed v
\* consumption_rate = 0.002 + speed / 10000, floor 5 percent
FuelAfter(fuel_level, v) ==
    IF v > 0 THEN Max(50000, fuel_level - (20 + v)) ELSE fuel_level

\* CustomOBDSimulator.update() at time t
SimUpdate(s, t, flip, start, change) ==
    LET moving == MovingAfter(s.is_moving, flip)
        v0     == IF flip /\ moving THEN start ELSE s.speed
        v      == SpeedAfter(moving, v0, change)
    IN  [s EXCEPT !.is_moving  = moving,
                  !.speed      = v,
                  !.distance   = DistanceAfter(s.distance, v, t - s.last_time),
                  !.last_time  = t,
                  !.fuel_level = FuelAfter(s.fuel_level, v)]

\* the objects update() can leave at time t
SimUpdates(s, t) ==
    UNION { { SimUpdate(s, t, flip, start, change) :
                start \in (IF flip /\ ~s.is_moving THEN StartSpeedDraw ELSE {s.speed}),
                change \in (IF MovingAfter(s.is_moving, flip)
                            THEN MoveChangeDraw ELSE StopChangeDraw) } :
            flip \in BOOLEAN }

\* get_coolant_temp with jitter j
GetCoolantTemp(base_temp, j) == Max(7500, Min(base_temp + j, 10500))

CoolantTempDraw(speed) == IF speed > 40 THEN HotTempDraw ELSE CoolTempDraw

\* get_rpm with jitter j
GetRpm(base_rpm_idle, speed, j) ==
    IF speed < 1 THEN base_rpm_idle + j ELSE base_rpm_idle + speed * 40 + j

RpmJitterDraw(speed) == IF speed < 1 THEN IdleRpmDraw ELSE RunRpmDraw

\* get_maf in 1/400 g/s: (rpm / 1000) * 2.5 + jitter, rpm a fresh get_rpm()
GetMaf(rpm, j) == rpm + j

-----------------------------------------------------------------------------
(* src/obd_simulator.py: VehicleDataCollector and main *)

\* UPDATE_INTERVAL of obd_simulator.py
SimUpdateInterval == 2

\* len(self.all_readings) > 1000
HistoryCap == 1000

\* Python truthiness of an optional number: neither None nor 0
Truthy(o) == ~IsNone(o) /\ Val(o) # 0

\* a quotient <<num, den>> is falsy when it is 0
TruthyQ(o) == ~IsNone(o) /\ Val(o)[1] # 0

\* round(x, 2) of the quotient q when x is truthy, else None (unit 1/100)
Round2IfTruthy(o) ==
    IF TruthyQ(o) THEN Some(RoundHalfEven(Val(o)[1] * 100, Val(o)[2])) ELSE None

\* VehicleDataCollector._calculate_fuel_consumption(speed, maf): (km_per_liter,
\* fuel_flow) as quotients.  maf in 1/400 g/s, so
\* fuel_flow = maf * 3600 / (14.7 * 720) = maf400 / 1176  L/h
VdcCalculateFuelConsumption(speed, maf) ==
    IF IsNone(speed) \/ IsNone(maf) \/ Val(speed) = 0
    THEN [km_per_liter |-> None, fuel_flow |-> None]
    ELSE [km_per_liter |-> IF Val(maf) > 0 THEN Some(<<Val(speed) * 1176, Val(maf)>>)
                                           ELSE Some(<<0, 1>>),
          fuel_flow    |-> Some(<<Val(maf), 1176>>)]

\* [{"code": code[0], "description": code[1]} for code in dtc] if dtc else []
VdcDtcCodes(dtc) ==
    [i \in 1..Len(dtc) |-> [code |-> dtc[i].items[1], description |-> dtc[i].items[2]]]

\* the snapshot dictionary of VehicleDataCollector.get_current_snapshot
VdcSnapshot(tick, ts, temp, rpm, speed, fuel, maf, dtc, distance) ==
    LET c == VdcCalculateFuelConsumption(speed, maf)
    IN  [tick                 |-> tick,
         timestamp            |-> ts,
         coolant_temp_celsius |-> IF Truthy(temp)
                                  THEN Some(RoundHalfEven(Val(temp), 10)) ELSE None,
         rpm                  |-> IF Truthy(rpm) THEN rpm ELSE None,
         speed_kmh            |-> IF Truthy(speed) THEN speed ELSE None,
         fuel_level_percent   |-> IF Truthy(fuel)
                                  THEN Some(RoundHalfEven(Val(fuel), 1000)) ELSE None,
         maf_g_s              |-> IF Truthy(maf)
                                  THEN Some(RoundHalfEven(Val(maf), 4)) ELSE None,
         fuel_consumption_kml |-> Round2IfTruthy(c.km_per_liter),
         fuel_flow_lh         |-> Round2IfTruthy(c.fuel_flow),
         distance_traveled_km |-> IF distance # 0
                                  THEN Some(RoundHalfEven(distance * 1000, 3600))
                                  ELSE None,
         dtc_codes            |-> VdcDtcCodes(dtc),
         has_errors           |-> dtc # <<>>]

\* get_current_snapshot with use_simulator: update(), then the getters
VdcGetCurrentSnapshot(tick) ==
    \E s \in SimUpdates(sim, now) :
      \E jt \in CoolantTempDraw(s.speed), jr \in RpmJitterDraw(s.speed),
         jm \in RpmJitterDraw(s.speed), jf \in MafDraw, dtc \in SimDtcDraw :
        LET snap == VdcSnapshot(tick, now,
                        Some(GetCoolantTemp(s.base_temp, jt)),
                        Some(GetRpm(s.base_rpm_idle, s.speed, jr)),
                        Some(s.speed),
                        Some(s.fuel_level),
                        Some(GetMaf(GetRpm(s.base_rpm_idle, s.speed, jm), jf)),
                        dtc,
                        s.distance)
        IN  /\ sim' = s
            /\ snapshot' = snap
            /\ arg' = [speed |-> Some(s.speed),
                       maf |-> Some(GetMaf(GetRpm(s.base_rpm_idle, s.speed, jm), jf)),
                       dt |-> now - sim.last_time,
                       distance |-> sim.distance,
                       dtc |-> dtc]
            /\ hist' = HistAfter(hist, snap.coolant_temp_celsius, snap.fuel_level_percent)

\* a faulty variant of save_local: a full history keeps its oldest readings
SaveLocalKeepOldest(history, reading) ==
    LET h == Append(history, reading)
    IN  IF Len(h) > 1000 THEN SubSeq(h, 1, 1000) ELSE h

\* save_local: the history after appending the reading
SaveLocal(history, reading) ==
    LET h == Append(history, reading)
    IN  IF Len(h) > HistoryCap THEN SubSeq(h, Len(h) - HistoryCap + 1, Len(h)) ELSE h

\* a faulty variant of the document: total_readings counts every reading ever
\* saved, the evicted ones included
JsonDocCountsAll(history, snap) ==
    [last_update |-> snap.timestamp, total_readings |-> snap.tick,
     latest |-> snap.tick, history |-> history]

\* the JSON document save_local writes
JsonDoc(history, snap) ==
    [last_update |-> snap.timestamp, total_readings |-> Len(history),
     latest |-> snap.tick, history |-> history]

\* what writing the file can end in
FileOutcomes == {"ok", "OSError"}

\* VehicleDataCollector.send_to_api: the value returned and the message printed
VdcSendToApi(outcome) ==
    CASE outcome = "200"             -> [ret |-> TRUE,  log |-> <<>>]
      [] outcome = "500"             -> [ret |-> FALSE, log |-> <<"API returned status">>]
      [] outcome = "ConnectionError" -> [ret |-> FALSE, log |-> <<>>]
      [] OTHER                       -> [ret |-> FALSE, log |-> <<"API error">>]

\* main of obd_simulator.py runs with USE_SIMULATOR = True (sim_main) or with
\* USE_SIMULATOR = False, on a device (dev_main)
SimulatorPyMains == {"sim_main", "dev_main"}

\* main: time.sleep(1) before the loop
SimStart ==
    /\ prog \in SimulatorPyMains /\ pc = "start"
    /\ now' = now + 1
    /\ pc' = "tick"
    /\ UNCHANGED <<prog, attempt, iteration, obd, sim, col, arg, snapshot, all_readings, doc,
                   local_saved, api_sent, api_warning_shown, http, log, hist>>

\* iteration += 1; snapshot = collector.get_current_snapshot()
SimTick ==
    /\ prog = "sim_main" /\ pc = "tick"
    /\ iteration < MaxIter
    /\ iteration' = iteration + 1
    /\ VdcGetCurrentSnapshot(iteration + 1)
    /\ log' = <<>>
    /\ pc' = "save"
    /\ UNCHANGED <<prog, attempt, now, obd, col, all_readings, doc, local_saved, api_sent,
                   api_warning_shown, http>>

\* local_saved = collector.save_local(snapshot)
SimSave ==
    /\ prog \in SimulatorPyMains /\ pc = "save"
    /\ all_readings' = SaveLocal(all_readings, snapshot.tick)
    /\ \E outcome \in FileOutcomes :
        /\ local_saved' = (outcome = "ok")
        /\ doc' = IF outcome = "ok" THEN JsonDoc(all_readings', snapshot) ELSE doc
        /\ log' = IF outcome = "ok" THEN log ELSE Append(log, "Failed to save locally")
    /\ pc' = "send"
    /\ UNCHANGED <<prog, attempt, now, iteration, obd, sim, col, arg, snapshot, api_sent,
                   api_warning_shown, http, hist>>

\* a faulty variant of the send step: a failed transmission ends the loop
SimSendRaises ==
    /\ prog \in SimulatorPyMains /\ pc = "send"
    /\ \E outcome \in HttpOutcomes :
        /\ http' = Append(http, snapshot.tick)
        /\ api_sent' = VdcSendToApi(outcome).ret
        /\ log' = log \o VdcSendToApi(outcome).log
        /\ now' = now + HttpSeconds(outcome)
        /\ hist' = HistAfterSend(hist, VdcSendToApi(outcome).ret, VdcSendToApi(outcome).log)
        /\ pc' = IF outcome = "200" THEN "report" ELSE "exit"
    /\ UNCHANGED <<prog, attempt, iteration, obd, sim, col, arg, snapshot, all_readings, doc,
                   local_saved, api_warning_shown>>

\* api_sent = collector.send_to_api(snapshot)
SimSend ==
    /\ prog \in SimulatorPyMains /\ pc = "send"
    /\ \E outcome \in HttpOutcomes :
        /\ http' = Append(http, snapshot.tick)
        /\ api_sent' = VdcSendToApi(outcome).ret
        /\ log' = log \o VdcSendToApi(outcome).log
        /\ now' = now + HttpSeconds(outcome)
        /\ hist' = HistAfterSend(hist, VdcSendToApi(outcome).ret, VdcSendToApi(outcome).log)
    /\ pc' = "report"
    /\ UNCHANGED <<prog, attempt, iteration, obd, sim, col, arg, snapshot, all_readings, doc,
                   local_saved, api_warning_shown>>

\* the API warning shown once, the status lines, time.sleep(UPDATE_INTERVAL).
\* snapshot, local_saved and api_sent are not read again: the next iteration
\* overwrites them.
SimReport ==
    /\ prog \in SimulatorPyMains /\ pc = "report"
    /\ api_warning_shown' = (api_warning_shown \/ ~api_sent)
    /\ log' = IF ~api_sent /\ ~api_warning_shown
              THEN Append(log, "Cannot connect to API") ELSE log
    /\ now' = now + SimUpdateInterval
    /\ snapshot' = NoSnapshot
    /\ arg' = NoArg
    /\ local_saved' = FALSE
    /\ api_sent' = FALSE
    /\ hist' = HistAfterReport(hist, ~api_sent /\ ~api_warning_shown)
    /\ pc' = "tick"
    /\ UNCHANGED <<prog, attempt, iteration, obd, sim, col, all_readings, doc, http>>

\* except KeyboardInterrupt: collector.stop(), the total distance is printed
\* if USE_SIMULATOR; main returns and its locals are gone
SimInterrupt ==
    /\ prog \in SimulatorPyMains /\ pc \in {"tick", "save", "send", "report"}
    /\ log' = IF prog = "sim_main" THEN <<"Stopping", "Total distance">> ELSE <<"Stopping">>
    /\ snapshot' = NoSnapshot
    /\ arg' = NoArg
    /\ local_saved' = FALSE
    /\ api_sent' = FALSE
    /\ pc' = "exit"
    /\ UNCHANGED <<prog, attempt, now, iteration, obd, sim, col, all_readings, doc,
                   api_warning_shown, http, hist>>

\* KeyboardInterrupt during the initial time.sleep(1): outside the try
SimInterruptStart ==
    /\ prog \in SimulatorPyMains /\ pc = "start"
    /\ pc' = "killed"
    /\ UNCHANGED <<prog, attempt, now, iteration, obd, sim, col, arg, snapshot, all_readings, doc,
                   local_saved, api_sent, api_warning_shown, http, log, hist>>

InitSimMain ==
    /\ prog = "sim_main"
    /\ pc = "start"
    /\ now = 0
    /\ iteration = 0
    /\ attempt = 0
    /\ obd = NoObd
    /\ sim \in SimInit(0)
    /\ col = 0
    /\ arg = NoArg
    /\ snapshot = NoSnapshot
    /\ all_readings = <<>>
    /\ doc = NoDoc
    /\ local_saved = FALSE
    /\ api_sent = FALSE
    /\ api_warning_shown = FALSE
    /\ http = <<>>
    /\ log = <<>>
    /\ hist = NoHist

NextSimMain ==
    \/ SimStart
    \/ SimTick
    \/ SimSave
    \/ SimSend
    \/ SimReport
    \/ SimInterrupt
    \/ SimInterruptStart

SpecSimMain == InitSimMain /\ [][NextSimMain]_vars

\* a caller of the class: update() every UPDATE_INTERVAL seconds on a new
\* CustomOBDSimulator, MaxUpdates times at most
ApiSimUpdate ==
    /\ prog = "sim_api"
    /\ iteration < MaxUpdates
    /\ iteration' = iteration + 1
    /\ now' = now + SimUpdateInterval
    /\ sim' \in SimUpdates(sim, now')
    /\ UNCHANGED <<prog, attempt, pc, obd, col, arg, snapshot, all_readings, doc, local_saved,
                   api_sent, api_warning_shown, http, log, hist>>

InitSimApi ==
    /\ prog = "sim_api"
    /\ pc = "api"
    /\ now = 0
    /\ iteration = 0
    /\ attempt = 0
    /\ obd = NoObd
    /\ sim \in SimInit(0)
    /\ col = 0
    /\ arg = NoArg
    /\ snapshot = NoSnapshot
    /\ all_readings = <<>>
    /\ doc = NoDoc
    /\ local_saved = FALSE
    /\ api_sent = FALSE
    /\ api_warning_shown = FALSE
    /\ http = <<>>
    /\ log = <<>>
    /\ hist = NoHist

SpecSimApi == InitSimApi /\ [][ApiSimUpdate]_vars

-----------------------------------------------------------------------------
(* src/obd_collector.py: RealOBDCollector and main *)

MAX_CONNECTION_RETRIES == 3

RETRY_DELAY == 5

\* UPDATE_INTERVAL of obd_collector.py
ColUpdateInterval == 5

\* seconds obd.OBD(port) takes when it connects
ConnectSeconds == 1

\* RealOBDCollector.__init__ at time t
ColInit(t) ==
    [connection |-> "none", last_speed |-> 0, last_time |-> t,
     total_fuel_consumed |-> 0]

\* a response of connection.query: null, a value, or a value float() rejects
NullResponse == [kind |-> "null", value |-> 0]

ValueResponse(v) == [kind |-> "value", value |-> v]

BadResponse == [kind |-> "bad", value |-> 0]

\* RealOBDCollector._extract_value
ExtractValue(response) ==
    IF response.kind = "value" THEN Some(response.value) ELSE None

\* dtc_resp.value if not dtc_resp.is_null() else []
ExtractDtc(response) == IF response.kind = "null" THEN <<>> ELSE response.value

\* the responses of one tick: speed and MAF in every combination, the other
\* sensors all present, one of them absent or different, or all absent
SpeedResponses == {NullResponse, ValueResponse(0), ValueResponse(60)}

MafResponses == {NullResponse, ValueResponse(0), ValueResponse(3200)}

BaseResponses ==
    [temp |-> ValueResponse(9000), rpm |-> ValueResponse(2000),
     fuel |-> ValueResponse(501961), voltage |-> ValueResponse(12537),
     dtc |-> ValueResponse(<<>>)]

OtherResponses ==
    { BaseResponses,
      [BaseResponses EXCEPT !.temp = NullResponse],
      [BaseResponses EXCEPT !.temp = ValueResponse(2000)],
      [BaseResponses EXCEPT !.rpm = NullResponse],
      [BaseResponses EXCEPT !.rpm = ValueResponse(0)],
      [BaseResponses EXCEPT !.fuel = NullResponse],
      [BaseResponses EXCEPT !.voltage = BadResponse],
      [BaseResponses EXCEPT !.dtc = ValueResponse(<< DtcTuple(<<"P0128", "Coolant">>) >>)],
      [BaseResponses EXCEPT !.dtc = ValueResponse(<< DtcBare(<<"P", "0", "3", "0", "0">>),
                                                     DtcTuple(<<"P0171">>) >>)],
      [temp |-> NullResponse, rpm |-> NullResponse, fuel |-> NullResponse,
       voltage |-> NullResponse, dtc |-> NullResponse] }

\* RealOBDCollector._calculate_fuel_consumption(speed, maf, dt): (fuel_consumed,
\* fuel_flow); fuel_flow the quotient maf400 / 1176 L/h, fuel_consumed in
\* 1/(1176*3600) L
ColCalculateFuelConsumption(speed, maf, dt) ==
    IF IsNone(speed) \/ IsNone(maf) \/ Val(speed) = 0 \/ Val(maf) = 0
    THEN [fuel_consumed |-> None, fuel_flow |-> None]
    ELSE [fuel_consumed |-> Some(Val(maf) * dt), fuel_flow |-> Some(<<Val(maf), 1176>>)]

\* a faulty variant of the accumulation: the total is assigned, not added to
TotalFuelAssigned(total, fuel_consumed) ==
    IF Truthy(fuel_consumed) THEN Val(fuel_consumed) ELSE 0

\* total_fuel_consumed after "if fuel_consumed_now: self.total_fuel_consumed += ..."
TotalFuelAfter(total, fuel_consumed) ==
    IF Truthy(fuel_consumed) THEN total + Val(fuel_consumed) ELSE total

\* a faulty variant of the distance: the current speed alone, no average
ColDistanceCurrentSpeed(speed, last_speed, dt) ==
    IF ~IsNone(speed) /\ Val(speed) > 0
    THEN <<2 * Val(speed) * dt, 7200>>
    ELSE <<0, 1>>

\* distance_traveled as the quotient of km: avg_speed * (dt / 3600)
ColDistanceTraveled(speed, last_speed, dt) ==
    IF ~IsNone(speed) /\ Val(speed) > 0
    THEN <<(Val(speed) + last_speed) * dt, 7200>>
    ELSE <<0, 1>>

\* self.last_speed = speed if speed is not None else 0
LastSpeedAfter(speed) == IF IsNone(speed) THEN 0 ELSE Val(speed)

\* a faulty variant of _format_dtc_for_api without the "if not dtc" guard: the
\* absent list comes out as one record
FormatDtcNoGuard(dtc) ==
    IF dtc = <<>>
    THEN << [codigo |-> <<"None">>, descricao |-> "Unknown", status |-> "pendente"] >>
    ELSE [i \in 1..Len(dtc) |->
            [codigo |-> dtc[i].items, descricao |-> "Unknown", status |-> "pendente"]]

\* RealOBDCollector._format_dtc_for_api
FormatDtcForApi(dtc) ==
    [i \in 1..Len(dtc) |->
        IF dtc[i].tuple /\ Len(dtc[i].items) >= 1
        THEN [codigo    |-> <<dtc[i].items[1]>>,
              descricao |-> IF Len(dtc[i].items) > 1 THEN dtc[i].items[2] ELSE "Unknown",
              status    |-> "pendente"]
        ELSE [codigo    |-> dtc[i].items,
              descricao |-> "Unknown",
              status    |-> "pendente"]]

\* round(x, n) if x is not None else d
RoundOr(o, den, d) == IF IsNone(o) THEN d ELSE RoundHalfEven(Val(o), den)

\* a faulty variant of the snapshot: without an RPM reading the speed, the
\* distance and the fuel flow are given up as well
ColSnapshotNeedsRpm(tick, ts, c, temp, rpm, speed, fuel, maf, voltage, dtc, distance, fuel_flow) ==
    [tick                |-> tick,
     timestamp           |-> ts,
     velocidade          |-> IF IsNone(rpm) THEN Some(0) ELSE Some(RoundOr(speed, 1, 0)),
     rpm                 |-> Some(RoundOr(rpm, 1, 0)),
     temperatura         |-> Some(RoundOr(temp, 10, 0)),
     nivelCombustivel    |-> Some(RoundOr(fuel, 1000, 0)),
     voltagem            |-> Some(RoundOr(voltage, 10, 1200)),
     consumoInstantaneo  |-> IF TruthyQ(fuel_flow) /\ ~IsNone(rpm)
                             THEN Some(RoundHalfEven(Val(fuel_flow)[1] * 100, Val(fuel_flow)[2]))
                             ELSE Some(0),
     distanciaPercorrida |-> IF IsNone(rpm) THEN 0
                             ELSE RoundHalfEven(distance[1] * 1000, distance[2]),
     milStatus           |-> Len(dtc) > 0,
     dtcCount            |-> Len(dtc),
     falhas              |-> FormatDtcForApi(dtc),
     pressaoOleo         |-> None,
     total_fuel_consumed |-> RoundHalfEven(c.total_fuel_consumed * 1000, 1176 * 3600)]

\* the snapshot dictionary of RealOBDCollector.get_current_snapshot, from the
\* extracted values and the updated object c
ColSnapshot(tick, ts, c, temp, rpm, speed, fuel, maf, voltage, dtc, distance, fuel_flow) ==
    [tick                |-> tick,
     timestamp           |-> ts,
     velocidade          |-> Some(RoundOr(speed, 1, 0)),
     rpm                 |-> Some(RoundOr(rpm, 1, 0)),
     temperatura         |-> Some(RoundOr(temp, 10, 0)),
     nivelCombustivel    |-> Some(RoundOr(fuel, 1000, 0)),
     voltagem            |-> Some(RoundOr(voltage, 10, 1200)),
     consumoInstantaneo  |-> IF TruthyQ(fuel_flow)
                             THEN Some(RoundHalfEven(Val(fuel_flow)[1] * 100, Val(fuel_flow)[2]))
                             ELSE Some(0),
     distanciaPercorrida |-> RoundHalfEven(distance[1] * 1000, distance[2]),
     milStatus           |-> Len(dtc) > 0,
     dtcCount            |-> Len(dtc),
     falhas              |-> FormatDtcForApi(dtc),
     pressaoOleo         |-> None,
     total_fuel_consumed |-> RoundHalfEven(c.total_fuel_consumed * 1000, 1176 * 3600)]

\* RealOBDCollector.get_current_snapshot: the object and the snapshot
ColGetCurrentSnapshot(tick) ==
    \E rs \in SpeedResponses, rm \in MafResponses, ro \in OtherResponses :
        LET speed == ExtractValue(rs)
            maf   == ExtractValue(rm)
            dtc   == ExtractDtc(ro.dtc)
            dt    == now - col.last_time
            dist  == ColDistanceTraveled(speed, col.last_speed, dt)
            fc    == ColCalculateFuelConsumption(speed, maf, dt)
            c     == [col EXCEPT !.last_speed = LastSpeedAfter(speed),
                                 !.last_time = now,
                                 !.total_fuel_consumed =
                                     TotalFuelAfter(col.total_fuel_consumed, fc.fuel_consumed)]
            snap  == ColSnapshot(tick, now, c, ExtractValue(ro.temp), ExtractValue(ro.rpm),
                                 speed, ExtractValue(ro.fuel), maf, ExtractValue(ro.voltage),
                                 dtc, dist, fc.fuel_flow)
        IN  /\ col' = c
            /\ snapshot' = snap
            /\ arg' = [speed |-> speed, maf |-> maf, dt |-> dt,
                       last_speed |-> col.last_speed,
                       temp |-> ExtractValue(ro.temp), rpm |-> ExtractValue(ro.rpm),
                       fuel |-> ExtractValue(ro.fuel), voltage |-> ExtractValue(ro.voltage),
                       dtc |-> dtc, dtc_resp |-> ro.dtc]
            /\ hist' = HistAfter(hist, snap.temperatura, snap.nivelCombustivel)

\* RealOBDCollector.send_to_api: the value returned and the message printed
ColSendToApi(outcome) ==
    CASE outcome = "200"             -> [ret |-> TRUE,  log |-> <<>>]
      [] outcome = "500"             -> [ret |-> FALSE, log |-> <<"API error">>]
      [] outcome = "ConnectionError" -> [ret |-> FALSE, log |-> <<>>]
      [] OTHER                       -> [ret |-> FALSE, log |-> <<"API request failed">>]

\* what collector.connect() can return
ConnectOutcomes == {TRUE, FALSE}

\* a faulty variant of the retry loop: after the last failed attempt main goes
\* on to the tick loop instead of returning
ColConnectNoReturn ==
    /\ prog = "col_main" /\ pc = "connect"
    /\ attempt < MAX_CONNECTION_RETRIES
    /\ attempt' = attempt + 1
    /\ \E ok \in ConnectOutcomes :
        IF ok
        THEN /\ col' = [ColInit(now) EXCEPT !.connection = "open"]
             /\ now' = now + ConnectSeconds
             /\ pc' = "check"
        ELSE /\ col' = ColInit(now)
             /\ now' = now
             /\ pc' = IF attempt + 1 < MAX_CONNECTION_RETRIES THEN "retry" ELSE "check"
    /\ UNCHANGED <<prog, iteration, obd, sim, arg, snapshot, all_readings, doc,
                   local_saved, api_sent, api_warning_shown, http, log, hist>>

\* for attempt in range(1, MAX_CONNECTION_RETRIES + 1):
\*     collector = RealOBDCollector(...); if collector.connect(): break
ColConnect ==
    /\ prog = "col_main" /\ pc = "connect"
    /\ attempt < MAX_CONNECTION_RETRIES
    /\ attempt' = attempt + 1
    /\ \E ok \in ConnectOutcomes :
        IF ok
        THEN /\ col' = [ColInit(now) EXCEPT !.connection = "open"]
             /\ now' = now + ConnectSeconds
             /\ pc' = "check"
        ELSE /\ col' = ColInit(now)
             /\ now' = now
             /\ pc' = IF attempt + 1 < MAX_CONNECTION_RETRIES THEN "retry" ELSE "failed"
    /\ UNCHANGED <<prog, iteration, obd, sim, arg, snapshot, all_readings, doc,
                   local_saved, api_sent, api_warning_shown, http, log, hist>>

\* time.sleep(RETRY_DELAY)
ColRetry ==
    /\ prog = "col_main" /\ pc = "retry"
    /\ now' = now + RETRY_DELAY
    /\ pc' = "connect"
    /\ UNCHANGED <<prog, attempt, iteration, obd, sim, col, arg, snapshot, all_readings,
                   doc, local_saved, api_sent, api_warning_shown, http, log, hist>>

\* a faulty variant of the connection check: the loss is reported and the loop
\* goes on
ColCheckGoesOn ==
    /\ prog = "col_main" /\ pc = "check"
    /\ iteration < MaxIter
    /\ \E up \in BOOLEAN :
        IF up
        THEN /\ col' = col
             /\ log' = <<>>
        ELSE /\ col' = [col EXCEPT !.connection = "lost"]
             /\ log' = <<"Lost connection">>
    /\ pc' = "tick"
    /\ UNCHANGED <<prog, attempt, now, iteration, obd, sim, arg, snapshot, all_readings,
                   doc, local_saved, api_sent, api_warning_shown, http, hist>>

\* if not collector.is_connected(): break  -- the device may have dropped
ColCheck ==
    /\ prog = "col_main" /\ pc = "check"
    /\ iteration < MaxIter
    /\ \E up \in BOOLEAN :
        IF up
        THEN /\ pc' = "tick"
             /\ col' = col
             /\ log' = <<>>
        ELSE /\ pc' = "exit"
             /\ col' = [col EXCEPT !.connection = "lost"]
             /\ log' = <<"Lost connection">>
    /\ UNCHANGED <<prog, attempt, now, iteration, obd, sim, arg, snapshot, all_readings,
                   doc, local_saved, api_sent, api_warning_shown, http, hist>>

\* iteration += 1; snapshot = collector.get_current_snapshot()
ColTick ==
    /\ prog = "col_main" /\ pc = "tick"
    /\ iteration' = iteration + 1
    /\ ColGetCurrentSnapshot(iteration + 1)
    /\ pc' = "save"
    /\ UNCHANGED <<prog, attempt, now, obd, sim, all_readings, doc, local_saved, api_sent,
                   api_warning_shown, http, log>>

\* a query raises: except Exception prints "Error reading data", then the sleep
ColTickRaises ==
    /\ prog = "col_main" /\ pc = "tick"
    /\ iteration' = iteration + 1
    /\ log' = Append(log, "Error reading data")
    /\ pc' = "sleep"
    /\ UNCHANGED <<prog, attempt, now, obd, sim, col, arg, snapshot, all_readings, doc,
                   local_saved, api_sent, api_warning_shown, http, hist>>

\* a faulty variant of the save step: after a failed local save the reading is
\* not transmitted
ColSaveSkipsSend ==
    /\ prog = "col_main" /\ pc = "save"
    /\ all_readings' = SaveLocal(all_readings, snapshot.tick)
    /\ \E outcome \in FileOutcomes :
        /\ local_saved' = (outcome = "ok")
        /\ doc' = IF outcome = "ok" THEN JsonDoc(all_readings', snapshot) ELSE doc
        /\ log' = IF outcome = "ok" THEN log ELSE Append(log, "Failed to save locally")
        /\ pc' = IF outcome = "ok" THEN "send" ELSE "report"
    /\ UNCHANGED <<prog, attempt, now, iteration, obd, sim, col, arg, snapshot, api_sent,
                   api_warning_shown, http, hist>>

\* local_saved = collector.save_local(snapshot)
ColSave ==
    /\ prog = "col_main" /\ pc = "save"
    /\ all_readings' = SaveLocal(all_readings, snapshot.tick)
    /\ \E outcome \in FileOutcomes :
        /\ local_saved' = (outcome = "ok")
        /\ doc' = IF outcome = "ok" THEN JsonDoc(all_readings', snapshot) ELSE doc
        /\ log' = IF outcome = "ok" THEN log ELSE Append(log, "Failed to save locally")
    /\ pc' = "send"
    /\ UNCHANGED <<prog, attempt, now, iteration, obd, sim, col, arg, snapshot, api_sent,
                   api_warning_shown, http, hist>>

\* a faulty variant of the send step: a failed transmission is sent again at once
ColSendRetry ==
    /\ prog = "col_main" /\ pc = "send"
    /\ \E outcome \in HttpOutcomes :
        /\ http' = IF outcome = "200"
                   THEN Append(http, snapshot.tick)
                   ELSE Append(Append(http, snapshot.tick), snapshot.tick)
        /\ api_sent' = ColSendToApi(outcome).ret
        /\ log' = log \o ColSendToApi(outcome).log
        /\ now' = now + HttpSeconds(outcome)
        /\ hist' = HistAfterSend(hist, ColSendToApi(outcome).ret, ColSendToApi(outcome).log)
    /\ pc' = "report"
    /\ UNCHANGED <<prog, attempt, iteration, obd, sim, col, arg, snapshot, all_readings,
                   doc, local_saved, api_warning_shown>>

\* api_sent = collector.send_to_api(snapshot)
ColSend ==
    /\ prog = "col_main" /\ pc = "send"
    /\ \E outcome \in HttpOutcomes :
        /\ http' = Append(http, snapshot.tick)
        /\ api_sent' = ColSendToApi(outcome).ret
        /\ log' = log \o ColSendToApi(outcome).log
        /\ now' = now + HttpSeconds(outcome)
        /\ hist' = HistAfterSend(hist, ColSendToApi(outcome).ret, ColSendToApi(outcome).log)
    /\ pc' = "report"
    /\ UNCHANGED <<prog, attempt, iteration, obd, sim, col, arg, snapshot, all_readings,
                   doc, local_saved, api_warning_shown>>

\* the API warning shown once and the status lines, inside the try
ColReport ==
    /\ prog = "col_main" /\ pc = "report"
    /\ api_warning_shown' = (api_warning_shown \/ ~api_sent)
    /\ log' = IF ~api_sent /\ ~api_warning_shown
              THEN Append(log, "Cannot connect to API") ELSE log
    /\ snapshot' = NoSnapshot
    /\ arg' = NoArg
    /\ local_saved' = FALSE
    /\ api_sent' = FALSE
    /\ hist' = HistAfterReport(hist, ~api_sent /\ ~api_warning_shown)
    /\ pc' = "sleep"
    /\ UNCHANGED <<prog, attempt, now, iteration, obd, sim, col, all_readings, doc,
                   http>>

\* time.sleep(UPDATE_INTERVAL), after the try.  snapshot, local_saved and api_sent
\* are not read after the status lines: the next iteration overwrites them, and
\* arg, the inputs of the reading, goes with them.
ColSleep ==
    /\ prog = "col_main" /\ pc = "sleep"
    /\ now' = now + ColUpdateInterval
    /\ pc' = "check"
    /\ UNCHANGED <<prog, attempt, iteration, obd, sim, col, arg, snapshot, all_readings,
                   doc, local_saved, api_sent, api_warning_shown, http, log, hist>>

\* except KeyboardInterrupt: collector.stop(), the total fuel is printed; main
\* returns and its locals are gone
ColInterrupt ==
    /\ prog = "col_main" /\ pc \in {"check", "tick", "save", "send", "report", "sleep"}
    /\ col' = [col EXCEPT !.connection = "closed"]
    /\ log' = <<"Stopping", "Total fuel consumed">>
    /\ snapshot' = NoSnapshot
    /\ arg' = NoArg
    /\ local_saved' = FALSE
    /\ api_sent' = FALSE
    /\ pc' = "exit"
    /\ UNCHANGED <<prog, attempt, now, iteration, obd, sim, all_readings,
                   doc, api_warning_shown, http, hist>>

\* KeyboardInterrupt while connecting: outside the try
ColInterruptConnect ==
    /\ prog = "col_main" /\ pc \in {"connect", "retry"}
    /\ pc' = "killed"
    /\ UNCHANGED <<prog, attempt, now, iteration, obd, sim, col, arg, snapshot,
                   all_readings, doc, local_saved, api_sent, api_warning_shown, http, log,
                   hist>>

InitColMain ==
    /\ prog = "col_main"
    /\ pc = "connect"
    /\ now = 0
    /\ iteration = 0
    /\ attempt = 0
    /\ obd = NoObd
    /\ sim = 0
    /\ col = ColInit(0)
    /\ arg = NoArg
    /\ snapshot = NoSnapshot
    /\ all_readings = <<>>
    /\ doc = NoDoc
    /\ local_saved = FALSE
    /\ api_sent = FALSE
    /\ api_warning_shown = FALSE
    /\ http = <<>>
    /\ log = <<>>
    /\ hist = NoHist

NextColMain ==
    \/ ColConnect
    \/ ColRetry
    \/ ColCheck
    \/ ColTick
    \/ ColTickRaises
    \/ ColSave
    \/ ColSend
    \/ ColReport
    \/ ColSleep
    \/ ColInterrupt
    \/ ColInterruptConnect

SpecColMain == InitColMain /\ [][NextColMain]_vars

-----------------------------------------------------------------------------
(* VehicleDataCollector.get_current_snapshot with use_simulator = False *)

\* resp.value.magnitude if resp.value else None: a null or zero value is falsy
DeviceValue(response) ==
    IF response.kind = "value" /\ response.value # 0 THEN Some(response.value) ELSE None

\* dtc_resp.value if dtc_resp.value else []
DeviceDtc(response) == IF response.kind = "value" THEN response.value ELSE <<>>

\* the responses whose codes are (code, description) pairs
PairDtcResponses ==
    { r \in OtherResponses :
        \A i \in 1..Len(DeviceDtc(r.dtc)) :
            DeviceDtc(r.dtc)[i].tuple /\ Len(DeviceDtc(r.dtc)[i].items) >= 2 }

\* the responses whose snapshot the list comprehension of l.234 builds without
\* raising: every code has a code[0] and a code[1], as a pair or as the first
\* two characters of a bare code
IndexableDtcResponses ==
    PairDtcResponses \cup
        { [BaseResponses EXCEPT !.dtc = ValueResponse(<< DtcBare(<<"P", "0", "3", "0", "0">>) >>)] }

\* a caller of the class in device mode: one snapshot from the device's responses
VdcDeviceSnapshot ==
    /\ prog = "vdc_device"
    /\ \E rs \in SpeedResponses, rm \in MafResponses, ro \in IndexableDtcResponses :
        /\ snapshot' = VdcSnapshot(1, now, DeviceValue(ro.temp), DeviceValue(ro.rpm),
                                   DeviceValue(rs), DeviceValue(ro.fuel), DeviceValue(rm),
                                   DeviceDtc(ro.dtc), 0)
        /\ arg' = [speed |-> ExtractValue(rs), maf |-> ExtractValue(rm), dt |-> 0,
                   temp |-> ExtractValue(ro.temp), rpm |-> ExtractValue(ro.rpm),
                   fuel |-> ExtractValue(ro.fuel), dtc |-> DeviceDtc(ro.dtc),
                   dtc_resp |-> ro.dtc]
    /\ UNCHANGED <<prog, attempt, pc, now, iteration, obd, sim, col, all_readings, doc,
                   local_saved, api_sent, api_warning_shown, http, log, hist>>

InitVdcDevice ==
    /\ prog = "vdc_device"
    /\ pc = "api"
    /\ now = 0
    /\ iteration = 0
    /\ attempt = 0
    /\ obd = NoObd
    /\ sim = 0
    /\ col = 0
    /\ arg = NoArg
    /\ snapshot = NoSnapshot
    /\ all_readings = <<>>
    /\ doc = NoDoc
    /\ local_saved = FALSE
    /\ api_sent = FALSE
    /\ api_warning_shown = FALSE
    /\ http = <<>>
    /\ log = <<>>
    /\ hist = NoHist

-----------------------------------------------------------------------------
(* src/obd_simulator.py: main with USE_SIMULATOR = False *)

\* a response of connection.query in the device-mode main: null or a value
\* (quantity) for the sensors, no diagnostic codes
DevQuery(v) == {[kind |-> "null", value |-> 0], [kind |-> "value", value |-> v]}

\* iteration += 1; snapshot = collector.get_current_snapshot() from the device
DevTick ==
    /\ prog = "dev_main" /\ pc = "tick"
    /\ iteration < MaxIter
    /\ iteration' = iteration + 1
    /\ \E rs \in DevQuery(60), ro \in DevQuery(9000) :
        LET speed == DeviceValue(rs)
            temp  == DeviceValue(ro)
            snap  == VdcSnapshot(iteration + 1, now, temp, None, speed, None,
                                 Some(3200), <<>>, 0)
        IN  /\ snapshot' = snap
            /\ arg' = [speed |-> speed, maf |-> Some(3200), dt |-> 0, distance |-> 0,
                           dtc |-> <<>>]
            /\ hist' = HistAfter(hist, snap.coolant_temp_celsius, snap.fuel_level_percent)
    /\ log' = <<>>
    /\ pc' = "save"
    /\ UNCHANGED <<prog, attempt, now, obd, sim, col, all_readings, doc, local_saved, api_sent,
                   api_warning_shown, http>>

\* get_current_snapshot raises (a query of the device fails, a diagnostic code
\* has no second item for code[1]): main has no except Exception, the
\* exception leaves main and the process ends with a traceback
DevTickRaises ==
    /\ prog = "dev_main" /\ pc = "tick"
    /\ iteration < MaxIter
    /\ iteration' = iteration + 1
    /\ log' = <<"Traceback">>
    /\ snapshot' = NoSnapshot
    /\ arg' = NoArg
    /\ pc' = "crashed"
    /\ UNCHANGED <<prog, attempt, now, obd, sim, col, all_readings, doc, local_saved, api_sent,
                   api_warning_shown, http, hist>>

InitDevMain ==
    /\ prog = "dev_main"
    /\ pc = "start"
    /\ now = 0
    /\ iteration = 0
    /\ attempt = 0
    /\ obd = NoObd
    /\ sim = 0
    /\ col = 0
    /\ arg = NoArg
    /\ snapshot = NoSnapshot
    /\ all_readings = <<>>
    /\ doc = NoDoc
    /\ local_saved = FALSE
    /\ api_sent = FALSE
    /\ api_warning_shown = FALSE
    /\ http = <<>>
    /\ log = <<>>
    /\ hist = NoHist

NextDevMain ==
    \/ SimStart
    \/ DevTick
    \/ DevTickRaises
    \/ SimSave
    \/ SimSend
    \/ SimReport
    \/ SimInterrupt
    \/ SimInterruptStart

-----------------------------------------------------------------------------
(* save_local alone, called once per reading, the file written each time *)

ApiSaveLocal ==
    /\ prog = "save_api"
    /\ iteration < MaxSaves
    /\ iteration' = iteration + 1
    /\ snapshot' = [tick |-> iteration + 1, timestamp |-> iteration + 1]
    /\ all_readings' = SaveLocal(all_readings, iteration + 1)
    /\ local_saved' = TRUE
    /\ doc' = JsonDoc(all_readings', snapshot')
    /\ UNCHANGED <<prog, attempt, pc, now, obd, sim, col, arg, api_sent,
                   api_warning_shown, http, log, hist>>

InitSaveApi ==
    /\ prog = "save_api"
    /\ pc = "api"
    /\ now = 0
    /\ iteration = 0
    /\ attempt = 0
    /\ obd = NoObd
    /\ sim = 0
    /\ col = 0
    /\ arg = NoArg
    /\ snapshot = NoSnapshot
    /\ all_readings = <<>>
    /\ doc = NoDoc
    /\ local_saved = FALSE
    /\ api_sent = FALSE
    /\ api_warning_shown = FALSE
    /\ http = <<>>
    /\ log = <<>>
    /\ hist = NoHist

SpecSaveApi == InitSaveApi /\ [][ApiSaveLocal]_vars

-----------------------------------------------------------------------------
(* The programs together: one of them runs *)

Init ==
    \/ InitIndexApi
    \/ InitIndexMain
    \/ InitSimMain
    \/ InitDevMain
    \/ InitSimApi
    \/ InitVdcDevice
    \/ InitColMain
    \/ InitSaveApi

Next ==
    \/ ApiGerarDados
    \/ NextIndexMain
    \/ NextSimMain
    \/ DevTick
    \/ DevTickRaises
    \/ ApiSimUpdate
    \/ VdcDeviceSnapshot
    \/ NextColMain
    \/ ApiSaveLocal

Spec == Init /\ [][Next]_vars

\* the readings of the three programs
SpecReadings ==
    /\ (InitIndexApi \/ InitSimMain \/ InitVdcDevice \/ InitColMain)
    /\ [][ApiGerarDados \/ NextSimMain \/ VdcDeviceSnapshot \/ NextColMain]_vars

\* the main loops
SpecMains ==
    /\ (InitIndexMain \/ InitSimMain \/ InitDevMain \/ InitColMain)
    /\ [][NextIndexMain \/ NextSimMain \/ DevTick \/ DevTickRaises \/ NextColMain]_vars

-----------------------------------------------------------------------------
(* Properties *)

\* C1: after one call of OBDSimulator.gerar_dados in any mode and from any
\* speed, the speed is exactly 0 when parado, at most 120 when acelerando,
\* within 60..90 when rodando, at least 0 when freando, and within 0..120 in
\* every mode; the reading reports that speed.
C1_SpeedWithinModeBound ==
    (prog = "index_api" /\ HasSnapshot) =>
        /\ snapshot.velocidade = Some(obd.velocidade_atual)
        /\ obd.velocidade_atual >= 0 /\ obd.velocidade_atual <= 120
        /\ (arg.modo = "parado" => obd.velocidade_atual = 0)
        /\ (arg.modo = "acelerando" => obd.velocidade_atual <= 120)
        /\ (arg.modo = "rodando" => obd.velocidade_atual >= 60 /\ obd.velocidade_atual <= 90)
        /\ (arg.modo = "freando" => obd.velocidade_atual >= 0)

\* an accelerating call that ends at the ceiling
C1_AcceleratedToCeiling ==
    /\ prog = "index_api" /\ HasSnapshot
    /\ arg.modo = "acelerando"
    /\ snapshot.velocidade = Some(120)

\* C2 as the code has it: in every reading the speed and the fuel level are
\* not negative (or absent); the temperature is within 75..105 degrees in the
\* readings of VehicleDataCollector with its simulator, and within 60.5..95
\* degrees in the readings of OBDSimulator, whose first readings are below 75.
\* RealOBDCollector and the device mode report the temperature the device gave.
C2_ReadingRanges ==
    HasSnapshot =>
        /\ (prog = "index_api" =>
                /\ Val(snapshot.velocidade) >= 0
                /\ Val(snapshot.nivelCombustivel) >= 0
                /\ Val(snapshot.temperatura) >= 605 /\ Val(snapshot.temperatura) <= 950)
        /\ (prog \in {"sim_main", "vdc_device"} =>
                /\ (IsNone(snapshot.speed_kmh) \/ Val(snapshot.speed_kmh) >= 0)
                /\ (IsNone(snapshot.fuel_level_percent) \/ Val(snapshot.fuel_level_percent) >= 0))
        /\ (prog = "sim_main" =>
                /\ ~IsNone(snapshot.coolant_temp_celsius)
                /\ Val(snapshot.coolant_temp_celsius) >= 750
                /\ Val(snapshot.coolant_temp_celsius) <= 1050)
        /\ (prog = "col_main" =>
                /\ Val(snapshot.velocidade) >= 0
                /\ Val(snapshot.nivelCombustivel) >= 0)

\* the first reading of OBDSimulator: 60.5 degrees
C2_FirstReadingCold ==
    /\ prog = "index_api" /\ HasSnapshot
    /\ snapshot.temperatura = Some(605)
    /\ ~hist.reached90

\* C2 as the spec states it: every reading has a speed and a fuel level that
\* are not negative and a temperature within 75..105 degrees, the first
\* readings included.
C2_TemperatureAlwaysInBand ==
    HasSnapshot =>
        /\ (prog \in {"index_api", "col_main"} =>
                /\ Val(snapshot.velocidade) >= 0
                /\ Val(snapshot.nivelCombustivel) >= 0
                /\ Val(snapshot.temperatura) >= 750 /\ Val(snapshot.temperatura) <= 1050)
        /\ (prog \in {"sim_main", "vdc_device"} =>
                /\ (IsNone(snapshot.speed_kmh) \/ Val(snapshot.speed_kmh) >= 0)
                /\ (IsNone(snapshot.fuel_level_percent) \/ Val(snapshot.fuel_level_percent) >= 0)
                /\ ~IsNone(snapshot.coolant_temp_celsius)
                /\ Val(snapshot.coolant_temp_celsius) >= 750
                /\ Val(snapshot.coolant_temp_celsius) <= 1050)

\* C3 as the code has it: once a reading of OBDSimulator.gerar_dados has shown
\* 90 degrees or more, every later reading of it shows at least 88 degrees;
\* the temperature of CustomOBDSimulator.get_coolant_temp is drawn anew around
\* base_temp in every tick and after 90 degrees it is only known to stay
\* within 75..105.
C3_NoReturnBelow88 ==
    (HasSnapshot /\ hist.reached90) =>
        /\ (prog = "index_api" => Val(snapshot.temperatura) >= 880)
        /\ (prog = "sim_main" =>
                /\ Val(snapshot.coolant_temp_celsius) >= 750
                /\ Val(snapshot.coolant_temp_celsius) <= 1050)

\* OBDSimulator resampled at the floor of the band after having reached 90
C3_ResampledAtFloor ==
    /\ prog = "index_api" /\ HasSnapshot
    /\ hist.reached90
    /\ obd.temperatura = 8800
    /\ snapshot.temperatura = Some(880)

\* C3 as the spec states it: once a reading has shown 90 degrees or more,
\* every later reading shows at least 88 degrees, for OBDSimulator and for
\* CustomOBDSimulator.get_coolant_temp alike.
C3_NoReturnBelow88Anywhere ==
    (HasSnapshot /\ hist.reached90) =>
        /\ (prog = "index_api" => Val(snapshot.temperatura) >= 880)
        /\ (prog = "sim_main" => Val(snapshot.coolant_temp_celsius) >= 880)

\* C4: from one step to the next CustomOBDSimulator.distance never decreases
\* and RealOBDCollector.total_fuel_consumed never decreases, whatever the
\* sensors gave and however long the tick took (elapsed time and mass air
\* flow not negative).
C4_TotalsNeverDecrease ==
    [][ /\ (prog = "sim_main" => sim'.distance >= sim.distance)
        /\ (prog = "col_main" =>
                col'.total_fuel_consumed >= col.total_fuel_consumed) ]_vars

\* a second tick that adds nothing to a total that is already positive
C4_TotalKeptByEmptyTick ==
    /\ prog = "col_main" /\ HasSnapshot
    /\ iteration = 2
    /\ arg.maf = Some(0)
    /\ col.total_fuel_consumed > 0

\* C5 as the spec states it: the fuel level stays within 5..100 percent and
\* never increases from one tick to the next, for CustomOBDSimulator.fuel_level
\* and for nivelCombustivel of OBDSimulator.gerar_dados.
C5_FuelLevelNeverIncreases ==
    [][ /\ (prog = "sim_main" =>
                /\ sim'.fuel_level <= sim.fuel_level
                /\ sim'.fuel_level >= 50000 /\ sim'.fuel_level <= 1000000)
        /\ ((prog = "index_api" /\ ~IsNone(hist'.nivel)) =>
                /\ Val(hist'.nivel) >= 5 /\ Val(hist'.nivel) <= 100
                /\ (~IsNone(hist.nivel) => Val(hist'.nivel) <= Val(hist.nivel))) ]_vars

\* C6 as the code has it: distanciaPercorrida of OBDSimulator.gerar_dados is
\* (new speed / 3600) * intervalo rounded to 6 decimals; distanciaPercorrida of
\* RealOBDCollector is (mean of this tick's and the previous tick's speed /
\* 3600) * elapsed seconds rounded to 3 decimals, and 0 when the speed is absent
\* or 0; the amount added to CustomOBDSimulator.distance is exactly
\* (speed / 3600) * elapsed seconds.
C6_DistanceDelta ==
    HasSnapshot =>
        /\ (prog = "index_api" =>
                2 * Abs(snapshot.distanciaPercorrida * 3600
                        - obd.velocidade_atual * arg.intervalo * 1000000) <= 3600)
        /\ (prog = "col_main" =>
                IF ~IsNone(arg.speed) /\ Val(arg.speed) > 0
                THEN 2 * Abs(snapshot.distanciaPercorrida * 7200
                             - (Val(arg.speed) + arg.last_speed) * arg.dt * 1000) <= 7200
                ELSE snapshot.distanciaPercorrida = 0)
        /\ (prog = "sim_main" => sim.distance - arg.distance = sim.speed * arg.dt)

\* the first tick of RealOBDCollector at 60 km/h, one second after a start
\* from rest: 0.008 km, the distance at the mean speed of 30 km/h
C6_MeanSpeedDistance ==
    /\ prog = "col_main" /\ HasSnapshot
    /\ arg.speed = Some(60) /\ arg.last_speed = 0 /\ arg.dt = 1
    /\ snapshot.distanciaPercorrida = 8

\* C6 as the spec states it: in every tick the distance delta equals exactly
\* (speed of that tick / 3600) * elapsed seconds, for OBDSimulator,
\* RealOBDCollector and CustomOBDSimulator.
C6_DistanceDeltaExact ==
    HasSnapshot =>
        /\ (prog = "index_api" =>
                snapshot.distanciaPercorrida * 3600
                    = obd.velocidade_atual * arg.intervalo * 1000000)
        /\ (prog = "col_main" =>
                snapshot.distanciaPercorrida * 3600
                    = Val(snapshot.velocidade) * arg.dt * 1000)
        /\ (prog = "sim_main" => sim.distance - arg.distance = sim.speed * arg.dt)

\* C7 as the spec states it: whenever the speed is 0 or the mass air flow is
\* 0 the reading has no fuel flow and no km-per-litre (null, not the number 0):
\* fuel_flow_lh and fuel_consumption_kml of VehicleDataCollector,
\* consumoInstantaneo of RealOBDCollector, consumoInstantaneo of OBDSimulator
\* when parado.
C7_AbsentNotZero ==
    HasSnapshot =>
        /\ ((prog \in {"sim_main", "vdc_device"}
             /\ (arg.speed = Some(0) \/ arg.maf = Some(0))) =>
                /\ IsNone(snapshot.fuel_flow_lh)
                /\ IsNone(snapshot.fuel_consumption_kml))
        /\ ((prog = "col_main" /\ (arg.speed = Some(0) \/ arg.maf = Some(0))) =>
                IsNone(snapshot.consumoInstantaneo))
        /\ ((prog = "index_api" /\ arg.modo = "parado") =>
                IsNone(snapshot.consumoInstantaneo))

\* C8: after any number of save_local calls the history holds the most recent
\* readings, at most 1000 of them, in the order they were produced: after n
\* calls it is the readings n-m+1 .. n with m the smaller of n and 1000.
C8_HistoryIsMostRecent ==
    prog = "save_api" =>
        /\ Len(all_readings) = (IF iteration <= 1000 THEN iteration ELSE 1000)
        /\ \A i \in 1..Len(all_readings) :
                all_readings[i] = iteration - Len(all_readings) + i

\* two readings appended to a full history: the two oldest are gone
C8_TwoEvicted ==
    /\ prog = "save_api"
    /\ iteration = 1002
    /\ Len(all_readings) = 1000
    /\ all_readings[1] = 3
    /\ all_readings[1000] = 1002

\* C9: a transmission, whatever it ends in (200, another status, a connection
\* error, a timeout, any other exception), leaves the loop at the step that
\* follows the send; unless the user interrupts, that step leads to the sleep
\* of the fixed interval and back to the head of the loop, where the next tick
\* starts under the loop's own condition, whatever api_sent is.
C9_FailedSendKeepsLoop ==
    [][ /\ ((prog = "sim_main" /\ http' # http) => pc' = "report")
        /\ ((prog = "sim_main" /\ pc = "report" /\ pc' # "exit") =>
                pc' = "tick" /\ now' = now + 2)
        /\ ((prog = "sim_main" /\ pc = "tick" /\ pc' # "exit") =>
                pc' = "save" /\ iteration' = iteration + 1)
        /\ ((prog = "col_main" /\ http' # http) => pc' = "report")
        /\ ((prog = "col_main" /\ pc = "report" /\ pc' # "exit") => pc' = "sleep")
        /\ ((prog = "col_main" /\ pc = "sleep" /\ pc' # "exit") =>
                pc' = "check" /\ now' = now + 5)
        /\ ((prog = "col_main" /\ pc = "check" /\ pc' # "exit") => pc' = "tick")
        /\ ((prog = "col_main" /\ pc = "tick" /\ pc' # "exit") =>
                iteration' = iteration + 1)
        /\ ((prog = "index_main" /\ http' # http) => pc' = "sleep")
        /\ ((prog = "index_main" /\ pc = "sleep" /\ pc' # "killed") =>
                pc' = "loop" /\ now' = now + 2)
        /\ ((prog = "index_main" /\ pc = "loop" /\ now < 60 /\ pc' # "killed") =>
                pc' = "gerar" /\ iteration' = iteration + 1) ]_vars

\* the second tick has built its reading after the transmission of the first failed
C9_NextTickAfterFailure ==
    /\ prog = "sim_main"
    /\ api_warning_shown
    /\ iteration = 2
    /\ HasSnapshot /\ snapshot.tick = 2
    /\ http = <<1>>

\* C10: the HTTP requests made so far are for readings of distinct ticks in
\* increasing order, none for a tick that has not started: a tick makes at
\* most one request, for its own reading, and no reading is sent twice.
C10_OneAttemptPerTick ==
    prog \in {"sim_main", "col_main", "index_main"} =>
        /\ Len(http) <= iteration
        /\ \A i \in 1..Len(http) :
                /\ http[i] >= 1 /\ http[i] <= iteration
                /\ (i > 1 => http[i - 1] < http[i])

\* two ticks, two failed transmissions, one request each
C10_TwoFailuresTwoRequests ==
    /\ prog = "col_main" /\ pc = "report"
    /\ api_warning_shown /\ ~api_sent
    /\ iteration = 2
    /\ http = <<1, 2>>

\* C11 as the spec states it: within a run of consecutive failed transmissions
\* at most one failure message is printed, and the first failed tick of every
\* run, also of one that begins after a transmission that succeeded, has its
\* failure reported once by the time main's report is done.
C11_OnceLoggedPerStreak ==
    [][ /\ (prog \in {"sim_main", "col_main"} => hist'.streak <= 1)
        /\ ((prog \in {"sim_main", "col_main"} /\ pc = "report" /\ ~api_sent
             /\ pc' # "exit") => hist'.streak = 1) ]_vars

\* C12: obd_collector.main makes at most 3 connection attempts and sleeps
\* RETRY_DELAY (5 s) between two of them; the tick loop is entered, and a tick
\* executed, only with a connection that an attempt has opened; after the
\* third failed attempt main returns with no tick, snapshot, save or send
\* made, and takes no further step.
C12_BoundedConnectRetries ==
    /\ [](prog = "col_main" =>
            /\ attempt <= 3
            /\ (pc \in {"connect", "retry"} => attempt < 3 /\ iteration = 0)
            /\ (pc = "retry" => attempt >= 1 /\ col.connection = "none")
            /\ ((pc \in {"check", "tick", "save", "send", "report", "sleep"}
                 \/ iteration > 0 \/ HasSnapshot \/ Len(http) > 0 \/ Len(all_readings) > 0)
                    => attempt >= 1 /\ col.connection # "none")
            /\ (pc = "failed" =>
                    /\ attempt = 3 /\ col.connection = "none"
                    /\ iteration = 0 /\ ~HasSnapshot
                    /\ all_readings = <<>> /\ doc = NoDoc /\ http = <<>>))
    /\ [][prog = "col_main" =>
            /\ pc # "failed"
            /\ ((pc = "retry" /\ pc' # "killed") =>
                    pc' = "connect" /\ now' = now + 5 /\ attempt' = attempt)
            /\ ((pc = "connect" /\ pc' # "killed") =>
                    /\ attempt' = attempt + 1
                    /\ pc' = (IF col'.connection = "open" THEN "check"
                              ELSE IF attempt' < 3 THEN "retry" ELSE "failed"))]_vars

\* three failed attempts, two delays, and main has returned
C12_AllAttemptsFailed ==
    /\ prog = "col_main" /\ pc = "failed"
    /\ attempt = 3
    /\ now = 10
    /\ iteration = 0

\* C13 as the spec states it: a program that a KeyboardInterrupt has ended
\* after its start-up has reported its accumulated totals: the distance in
\* obd_simulator.py, the fuel consumed in obd_collector.py, and either of them
\* in OBDSimulator.simular_viagem.
C13_TotalsReportedOnInterrupt ==
    /\ (prog = "sim_main" /\ pc = "exit") =>
            \E i \in 1..Len(log) : log[i] = "Total distance"
    /\ (prog = "col_main" /\ pc = "exit" /\ col.connection = "closed") =>
            \E i \in 1..Len(log) : log[i] = "Total fuel consumed"
    /\ (prog = "index_main" /\ pc = "killed") =>
            \E i \in 1..Len(log) : log[i] \in {"Total distance", "Total fuel consumed"}

\* C14 as the spec states it: in the main loops of obd_collector.py and
\* obd_simulator.py an error raised while the reading of a tick is produced,
\* saved or sent never ends the program: no tick leaves it crashed.
C14_NoTickErrorIsFatal ==
    prog \in {"col_main", "sim_main", "dev_main"} => pc # "crashed"

\* C15: RealOBDCollector.get_current_snapshot produces a snapshot whatever
\* sensors are absent, and a sensor changes only the field that reports it:
\* with the RPM (or the temperature, the fuel level, the voltage) replaced by
\* an absent or by another value and the other inputs kept, the snapshot
\* differs in no other field, so the speed, the distance and the fuel flow are
\* the same; with the speed or the mass air flow replaced, the RPM, the
\* temperature, the fuel level, the voltage and the diagnostics are the same.
C15_AbsentSensorIsolated ==
    (prog = "col_main" /\ HasSnapshot) =>
        LET Build(a) ==
                ColSnapshot(snapshot.tick, snapshot.timestamp, col, a.temp, a.rpm, a.speed,
                            a.fuel, a.maf, a.voltage, a.dtc,
                            ColDistanceTraveled(a.speed, a.last_speed, a.dt),
                            ColCalculateFuelConsumption(a.speed, a.maf, a.dt).fuel_flow)
            Others == {None, Some(0), Some(7)}
            Same(x, y, fields) == \A f \in fields : x[f] = y[f]
            All == DOMAIN snapshot
        IN  /\ \A v \in Others :
                /\ Same(Build([arg EXCEPT !.rpm = v]), snapshot, All \ {"rpm"})
                /\ Same(Build([arg EXCEPT !.temp = v]), snapshot, All \ {"temperatura"})
                /\ Same(Build([arg EXCEPT !.fuel = v]), snapshot, All \ {"nivelCombustivel"})
                /\ Same(Build([arg EXCEPT !.voltage = v]), snapshot, All \ {"voltagem"})
                /\ Same(Build([arg EXCEPT !.speed = v]), snapshot,
                        {"rpm", "temperatura", "nivelCombustivel", "voltagem", "milStatus",
                         "dtcCount", "falhas"})
                /\ Same(Build([arg EXCEPT !.maf = v]), snapshot,
                        {"velocidade", "distanciaPercorrida", "rpm", "temperatura",
                         "nivelCombustivel", "voltagem", "milStatus", "dtcCount", "falhas"})
            /\ (IsNone(arg.rpm) => snapshot.rpm = Some(0))

\* a tick without an RPM reading whose speed, distance and fuel flow are reported
C15_NoRpmButSpeed ==
    /\ prog = "col_main" /\ HasSnapshot
    /\ IsNone(arg.rpm)
    /\ snapshot.velocidade = Some(60)
    /\ snapshot.distanciaPercorrida > 0
    /\ Val(snapshot.consumoInstantaneo) > 0

\* C16: a quantity that could not be obtained is reported absent: in the
\* snapshot of RealOBDCollector and in the device-mode snapshot of
\* VehicleDataCollector, the field of an absent speed, RPM, temperature, fuel
\* level, voltage or mass air flow is null, not zero or another number.
C16_AbsentReportedAbsent ==
    /\ (prog = "col_main" /\ HasSnapshot) =>
        /\ (IsNone(arg.speed) => IsNone(snapshot.velocidade))
        /\ (IsNone(arg.rpm) => IsNone(snapshot.rpm))
        /\ (IsNone(arg.temp) => IsNone(snapshot.temperatura))
        /\ (IsNone(arg.fuel) => IsNone(snapshot.nivelCombustivel))
        /\ (IsNone(arg.voltage) => IsNone(snapshot.voltagem))
        /\ (IsNone(arg.maf) => IsNone(snapshot.consumoInstantaneo))
    /\ (prog = "vdc_device" /\ HasSnapshot) =>
        /\ (IsNone(arg.speed) => IsNone(snapshot.speed_kmh))
        /\ (IsNone(arg.rpm) => IsNone(snapshot.rpm))
        /\ (IsNone(arg.temp) => IsNone(snapshot.coolant_temp_celsius))
        /\ (IsNone(arg.fuel) => IsNone(snapshot.fuel_level_percent))
        /\ (IsNone(arg.maf) => IsNone(snapshot.maf_g_s) /\ IsNone(snapshot.fuel_flow_lh))

C18_OneRecordPerCode ==
    LET WholeCode(c) == IF c.tuple THEN <<c.items[1]>> ELSE c.items
    IN  /\ (prog = "col_main" /\ HasSnapshot) =>
            /\ Len(snapshot.falhas) = Len(arg.dtc)
            /\ \A i \in 1..Len(arg.dtc) : snapshot.falhas[i].codigo = WholeCode(arg.dtc[i])
            /\ snapshot.dtcCount = Len(snapshot.falhas)
            /\ snapshot.milStatus = (arg.dtc # <<>>)
        /\ (prog \in {"vdc_device", "sim_main"} /\ HasSnapshot) =>
            /\ Len(snapshot.dtc_codes) = Len(arg.dtc)
            /\ \A i \in 1..Len(arg.dtc) :
                    <<snapshot.dtc_codes[i].code>> = WholeCode(arg.dtc[i])
            /\ snapshot.has_errors = (arg.dtc # <<>>)

\* C19: building a reading is deterministic: any other build from the same
\* vehicle state and the same diagnostics, whatever its random draws, gives
\* the reading that was built.  For OBDSimulator.gerar_dados the state is the
\* object after the tick's update and the tick's consumption; for
\* VehicleDataCollector.get_current_snapshot it is the simulator after update().
C19_BuildDeterministic ==
    /\ (prog = "index_api" /\ HasSnapshot) =>
        \A n \in NivelDraw :
            LET again == DadosObd(obd, arg.intervalo, 0, n, snapshot.tick)
            IN  \A f \in DOMAIN snapshot \ {"consumoInstantaneo"} : again[f] = snapshot[f]
    /\ (prog = "sim_main" /\ HasSnapshot) =>
        \A jt \in CoolantTempDraw(sim.speed), jr \in RpmJitterDraw(sim.speed),
           jm \in RpmJitterDraw(sim.speed), jf \in MafDraw :
            VdcSnapshot(snapshot.tick, snapshot.timestamp,
                        Some(GetCoolantTemp(sim.base_temp, jt)),
                        Some(GetRpm(sim.base_rpm_idle, sim.speed, jr)),
                        Some(sim.speed),
                        Some(sim.fuel_level),
                        Some(GetMaf(GetRpm(sim.base_rpm_idle, sim.speed, jm), jf)),
                        arg.dtc,
                        sim.distance) = snapshot

\* C20: a call of OBDSimulator.gerar_dados in accelerating mode from the speed
\* v leaves a speed between min(v + 5, 120) and min(v + 15, 120) and reports
\* it, and the distance of the reading is (new speed / 3600) * interval as
\* rounded to 6 decimals, the distance at the new speed.
C20_AcceleratingTick ==
    [][ (prog = "index_api" /\ arg'.modo = "acelerando") =>
            /\ obd'.velocidade_atual >= Min(obd.velocidade_atual + 5, 120)
            /\ obd'.velocidade_atual <= Min(obd.velocidade_atual + 15, 120)
            /\ snapshot'.velocidade = Some(obd'.velocidade_atual)
            /\ Abs(snapshot'.distanciaPercorrida * 3600
                   - obd'.velocidade_atual * arg'.intervalo * 1000000) <= 1800 ]_vars

\* an accelerating call of 2 seconds that ends at 55 km/h: 0.030556 km, where
\* the distance at the speed before, at most 50 km/h, is at most 0.027778 km
C20_AcceleratedTo55 ==
    /\ prog = "index_api" /\ HasSnapshot
    /\ arg.modo = "acelerando" /\ arg.intervalo = 2
    /\ obd.velocidade_atual = 55
    /\ snapshot.distanciaPercorrida = 30556

C22_TickOrder ==
    /\ [](LET Has(q, t) == \E i \in 1..Len(q) : q[i] = t
              IsLast(q, t) == Len(q) > 0 /\ q[Len(q)] = t
          IN  prog \in {"sim_main", "dev_main", "col_main"} =>
                /\ (pc = "save" => /\ HasSnapshot /\ snapshot.tick = iteration
                                   /\ ~Has(all_readings, iteration)
                                   /\ ~Has(http, iteration))
                /\ (pc = "send" => /\ HasSnapshot /\ snapshot.tick = iteration
                                   /\ IsLast(all_readings, iteration)
                                   /\ ~Has(http, iteration))
                /\ (pc = "report" => /\ HasSnapshot /\ snapshot.tick = iteration
                                     /\ IsLast(all_readings, iteration)
                                     /\ IsLast(http, iteration)
                                     /\ ~Has(SubSeq(http, 1, Len(http) - 1), iteration))
                /\ (pc \notin {"save", "send", "report"} => ~HasSnapshot))
    /\ [][LET Gone(p) == p \in {"exit", "killed", "crashed"}
          IN  prog \in {"sim_main", "dev_main", "col_main"} =>
                /\ (iteration' # iteration =>
                        /\ pc = "tick" /\ iteration' = iteration + 1
                        /\ (HasSnapshot' => pc' = "save"))
                /\ ((pc = "save" /\ ~Gone(pc')) => pc' = "send" /\ snapshot' = snapshot)
                /\ ((pc = "send" /\ ~Gone(pc')) =>
                        /\ pc' = "report" /\ snapshot' = snapshot
                        /\ http' = Append(http, snapshot.tick))
                /\ ((pc = "report" /\ ~Gone(pc')) =>
                        IF prog = "col_main" THEN pc' = "sleep"
                        ELSE pc' = "tick" /\ now' = now + SimUpdateInterval)
                /\ ((pc = "sleep" /\ ~Gone(pc')) =>
                        pc' = "check" /\ now' = now + ColUpdateInterval)
                /\ ((pc' = "tick" /\ pc # "tick") =>
                        IF prog = "col_main" THEN pc = "check" ELSE pc \in {"start", "report"})
                /\ ((pc' = "check" /\ pc # "check") => pc \in {"connect", "sleep"})
         ]_vars

\* the second reading of RealOBDCollector was transmitted although its local
\* save had failed
C22_SentAfterFailedSave ==
    /\ prog = "col_main" /\ pc = "report"
    /\ iteration = 2
    /\ ~local_saved
    /\ Len(http) > 0 /\ http[Len(http)] = 2

\* C23: a sensor value of exactly zero is reported as the number zero, and a
\* field of the reading is null if and only if its sensor value was absent,
\* in the snapshots of VehicleDataCollector and of RealOBDCollector.
C23_NullIffAbsent ==
    /\ (prog = "col_main" /\ HasSnapshot) =>
        /\ (IsNone(snapshot.velocidade) <=> IsNone(arg.speed))
        /\ (IsNone(snapshot.rpm) <=> IsNone(arg.rpm))
        /\ (arg.speed = Some(0) => snapshot.velocidade = Some(0))
        /\ (arg.rpm = Some(0) => snapshot.rpm = Some(0))
    /\ (prog = "vdc_device" /\ HasSnapshot) =>
        /\ (IsNone(snapshot.speed_kmh) <=> IsNone(arg.speed))
        /\ (IsNone(snapshot.rpm) <=> IsNone(arg.rpm))
        /\ (arg.speed = Some(0) => snapshot.speed_kmh = Some(0))
        /\ (arg.rpm = Some(0) => snapshot.rpm = Some(0))
    /\ (prog = "sim_main" /\ HasSnapshot) =>
        /\ (IsNone(snapshot.speed_kmh) <=> IsNone(arg.speed))
        /\ (arg.speed = Some(0) => snapshot.speed_kmh = Some(0))
        /\ (sim.distance = 0 => snapshot.distance_traveled_km = Some(0))

C25_ExitClosesConnection ==
    (prog = "col_main" /\ pc = "exit") => col.connection = "closed"

\* C26: in obd_collector.main the connection is checked at the start of every
\* tick: a tick begins only from a check that found the device connected; a
\* check that finds it lost ends the loop there, with no further reading,
\* local save or transmission, and nothing is done afterwards.
C26_LoopEndsAtLostCheck ==
    /\ []((prog = "col_main" /\ col.connection = "lost") => (pc = "exit" /\ ~HasSnapshot))
    /\ [][ prog = "col_main" =>
            /\ (pc' = "tick" => (pc = "check" /\ col'.connection = "open"))
            /\ (iteration' # iteration => (pc = "tick" /\ col.connection = "open"))
            /\ (col'.connection = "lost" =>
                    /\ pc = "check" /\ pc' = "exit"
                    /\ UNCHANGED <<iteration, snapshot, all_readings, doc, http>>)
            /\ col.connection # "lost"
         ]_vars

\* the connection was found lost at the check after one complete tick
C26_LostAfterOneTick ==
    /\ prog = "col_main" /\ pc = "exit"
    /\ col.connection = "lost"
    /\ iteration = 1
    /\ http = <<1>> /\ all_readings = <<1>>

\* C27: for CustomOBDSimulator, from every initial state and after every
\* update the speed is within 0..85; after an update that leaves is_moving
\* true it is within 10..85; an update that leaves is_moving false takes at
\* least 8 off the speed or brings it to 0, so that while is_moving stays
\* false the speed strictly decreases until it is 0, and at 0 it stays.
C27_SpeedRange ==
    /\ [](prog = "sim_api" => sim.speed >= 0 /\ sim.speed <= 85)
    /\ [][ prog = "sim_api" =>
            /\ (sim'.is_moving => sim'.speed >= 10 /\ sim'.speed <= 85)
            /\ (~sim'.is_moving => sim'.speed <= Max(0, sim.speed - 8))
            /\ ((~sim.is_moving /\ ~sim'.is_moving /\ sim.speed > 0) => sim'.speed < sim.speed)
            /\ ((~sim.is_moving /\ ~sim'.is_moving /\ sim.speed = 0) => sim'.speed = 0)
         ]_vars

\* six updates of a vehicle that started at 60 km/h and kept accelerating: the
\* sixth is held at 85
C27_HeldAtCeiling ==
    /\ prog = "sim_api"
    /\ iteration = 6
    /\ sim.is_moving /\ sim.speed = 85
    /\ sim.distance = (65 + 70 + 75 + 80 + 85 + 85) * 2

\* C28: OBDSimulator.simular_viagem terminates: every iteration advances the
\* clock by the interval and by the time of its transmission, successful or
\* not, so there are at most duracao / intervalo iterations, the body runs only
\* while the elapsed time is below duracao_segundos, and the loop is left once
\* it is not; the modes selected follow the order parado, acelerando, rodando,
\* freando and never go back.
C28_ViagemTerminates ==
    /\ <>(pc \in {"exit", "killed"})
    /\ [][LET Rank(m) == CASE m = "parado" -> 1 [] m = "acelerando" -> 2
                              [] m = "rodando" -> 3 [] m = "freando" -> 4 [] OTHER -> 0
          IN  /\ iteration' * Intervalo <= Duracao
              /\ (iteration' # iteration =>
                    /\ now < Duracao
                    /\ now' = now
                    /\ Rank(arg'.modo) >= Rank(arg.modo)
                    /\ Rank(arg'.modo) >= 1)
              /\ (pc = "sleep" /\ pc' = "loop" => now' = now + Intervalo)
              /\ (pc' = "fim" /\ pc = "loop" => now >= Duracao)
              /\ now' >= now
         ]_vars

\* the trip ended after fewer than 30 iterations, its last transmission failed
C28_EndedWithFailedSends ==
    /\ prog = "index_main" /\ pc = "exit"
    /\ now >= Duracao
    /\ iteration < 30 /\ Len(http) = iteration
    /\ ~api_sent
    /\ arg.modo = "freando"

=============================================================================
